---- MODULE Spec2Model ----
(***************************************************************************)
(* Model of backup_scheduler.py (class BackupManager): the dry-run        *)
(* partition preview (show_backup_plan / _show_directory_structure) and   *)
(* the archive validator (validar_backup_completo).                       *)
(***************************************************************************)
EXTENDS Bags, FiniteSets, Integers, Sequences, TLC

(***************************************************************************)
(* Bounds of the model.                                                    *)
(***************************************************************************)
\* largest number of sub-directories (at any depth) below a backup root
MaxDirs == 2
\* largest split_depth a folder is configured with
MaxSplit == 4
\* largest number of files of an original tree drawn with every combination
\* of file states
MaxSmall == 2
\* how far the number of files of a large original tree may exceed the
\* sampling threshold
MaxOver == 1
\* file contents are 0..MaxData
MaxData == 2
\* number of distinct digests (a digest has fewer values than there are contents)
DigestSpace == 2
\* number of validations one process runs one after the other
MaxCalls == 2
\* largest number of bytes of a file that calculate_directory_hash reads
MaxContent == 1
\* largest number of entries of config['folders']
MaxFolders == 2

(***************************************************************************)
(* State.                                                                  *)
(***************************************************************************)
VARIABLES
    fs,             \* the file system below folder_config.path, as the os module sees it
    folder_config,  \* the entry of config['folders'] handed to show_backup_plan
    plan,           \* the lines show_backup_plan has printed, in order
    planState       \* "idle", "returned" or "raised" (an exception left show_backup_plan)

VARIABLES
    deep_validation,  \* config['validation']['deep_validation']
    tar_file,         \* the archive at tar_file: its state and the members it holds
    original,         \* the files below original_path: relative path -> file
    pc,               \* where validar_backup_completo stands
    temp_dir,         \* the TemporaryDirectory of the call: its state and its content
    original_files,   \* the local variables of the same name
    extracted_files,
    missing_files,
    extra_files,
    files_to_check,   \* the list, as a bag of relative paths
    exc,              \* the exception raised inside the try block, "none" if none
    log,              \* the events the call has logged, in order
    result            \* the value returned: "True", "False", or "pending"

VARIABLES
    tmp_dirs,         \* the names of the directories under tempfile.gettempdir()
    tmp_name,         \* the name mkdtemp gave the directory of the call, "" if none
    calls             \* number of calls of validar_backup_completo begun

VARIABLES
    dir_states,       \* the two states of a directory handed to calculate_directory_hash
    digests           \* the digests returned so far, in the order of the calls

planVars == <<fs, folder_config, plan, planState>>

hashVars == <<dir_states, digests>>

VARIABLES
    config_folders,       \* self.config['folders']
    dry_run,              \* the argument of executar_todos_backups
    run_pc,               \* where executar_todos_backups stands
    folders_habilitadas,  \* the enabled entries, once the list is built
    idx,                  \* how many entries of folders_habilitadas the loop has taken
    sucessos,
    falhas,
    attempts,             \* the names executar_backup was called with, in order
    previewed,            \* the names show_backup_plan was called with, in order
    sent,                 \* the calls of enviar_mensagem, in order
    run_result            \* what executar_todos_backups returned

runVars == <<config_folders, dry_run, run_pc, folders_habilitadas, idx, sucessos, falhas,
             attempts, previewed, sent, run_result>>

callVars == <<tmp_dirs, tmp_name, calls>>

valVars == <<deep_validation, tar_file, original, pc, temp_dir, original_files,
             extracted_files, missing_files, extra_files, files_to_check,
             exc, log, result>>

vars == <<planVars, valVars, callVars, hashVars, runVars>>

(***************************************************************************)
(* File system inputs.  A directory is named by the sequence of entry      *)
(* names leading to it from the backup root (<<>> is the root itself).     *)
(***************************************************************************)
DirNames == {"a", "_files", "$RECYCLE.BIN"}

FileNames == {"x"}

\* the directory names _show_directory_structure filters out
SystemDirs == {"$RECYCLE.BIN", ".Trash-1000", "System Volume Information"}

\* Python compares str by code point: '$' (36) < '_' (95) < 'a' (97)
NameOrd(n) ==
    CASE n = "$RECYCLE.BIN" -> 36
      [] n = "_files" -> 95
      [] n = "a" -> 97
      [] OTHER -> 200

RECURSIVE DirSets(_)
\* every prefix-closed set of at most k directory paths
DirSets(k) ==
    IF k = 0 THEN {{}}
    ELSE LET prev == DirSets(k - 1)
         IN  prev \cup UNION {{t \cup {Append(p, n)} : p \in t \cup {<<>>}, n \in DirNames}
                               : t \in prev}

\* the regular files a tree with directories ds may hold
FileSets(ds) == SUBSET {Append(d, f) : d \in ds \cup {<<>>}, f \in FileNames}

\* at most one directory whose listing fails with PermissionError
DeniedSets(ds) == {{}} \cup {{d} : d \in ds \cup {<<>>}}

Parent(p) == SubSeq(p, 1, Len(p) - 1)

IsPrefix(p, q) == Len(p) <= Len(q) /\ SubSeq(q, 1, Len(p)) = p

\* folder_config['path'] split on "/": a trailing slash leaves an empty last part
RootPaths == {<<"data", "cfg">>, <<"data", "cfg", "">>}

(***************************************************************************)
(* os and os.path as the planner uses them.                                *)
(***************************************************************************)
\* os.path.basename(path): what follows the last "/"
Basename(path) == path[Len(path)]

\* the names e of os.listdir(here) with os.path.isdir(join(here, e))
ListDirs(here) == {n \in DirNames : Append(here, n) \in fs.dirs}

\* the names e of os.listdir(here) with os.path.isfile(join(here, e))
ListFiles(here) == {n \in FileNames : Append(here, n) \in fs.files}

RECURSIVE SortedNames(_)
\* sorted(dirs)
SortedNames(S) ==
    IF S = {} THEN <<>>
    ELSE LET m == CHOOSE n \in S : \A o \in S : NameOrd(n) <= NameOrd(o)
         IN  <<m>> \o SortedNames(S \ {m})

\* the directories os.walk(top) yields: it lists top-down and, with the
\* default onerror=None, skips silently a directory it cannot list
WalkDirs(top) ==
    {d \in fs.dirs \cup {<<>>} :
        /\ IsPrefix(top, d)
        /\ \A k \in Len(top)..Len(d) : SubSeq(d, 1, k) \notin fs.denied}

\* sum(len(files) for _, _, files in os.walk(top))
WalkFileCount(top) == Cardinality({f \in fs.files : Parent(f) \in WalkDirs(top)})

(***************************************************************************)
(* The lines of the preview.  An entry is a line that names a remote key.  *)
(***************************************************************************)
\* src is the directory (or root) the line is about, as a path below the root
Line(kind, key, count, src) == [kind |-> kind, key |-> key, count |-> count, src |-> src]

EntryKinds == {"SingleFile", "WholeTreeArchive", "LooseFilesArchive", "SubdirectoryArchive"}

\* s3_path of the loose files of current_path
LooseKey(backup_name, current_path) ==
    IF current_path # "" THEN backup_name \o "/" \o current_path \o "/_files.tar.gz"
    ELSE backup_name \o "/_files.tar.gz"

\* os.path.join(current_path, dir_name) if current_path else dir_name
JoinRel(current_path, dir_name) ==
    IF current_path # "" THEN current_path \o "/" \o dir_name ELSE dir_name

\* s3_path of a sub-directory archived as a unit
SubdirKey(backup_name, dir_path) == backup_name \o "/" \o dir_path \o ".tar.gz"

\* the "Arquivos (n arquivos)" line, printed only when files is not empty
LooseLines(backup_name, current_path, here) ==
    IF ListFiles(here) # {}
    THEN <<Line("LooseFilesArchive", LooseKey(backup_name, current_path),
                Cardinality(ListFiles(here)), here)>>
    ELSE <<>>

RECURSIVE SplitLevelDirs(_, _, _, _)
\* the loop of lines 220-230 over the remaining sorted directories
SplitLevelDirs(rest, backup_name, current_path, here) ==
    IF rest = <<>> THEN <<>>
    ELSE LET dir_name == Head(rest)
             dir_path == JoinRel(current_path, dir_name)
         IN  <<Line("SubdirectoryArchive", SubdirKey(backup_name, dir_path),
                    WalkFileCount(Append(here, dir_name)), Append(here, dir_name))>>
             \o SplitLevelDirs(Tail(rest), backup_name, current_path, here)

RECURSIVE ShowDirectoryStructure(_, _, _, _, _)
RECURSIVE DescendDirs(_, _, _, _, _, _)

\* _show_directory_structure; the result is the lines printed and the
\* exception that leaves the call ("none" when it returns)
ShowDirectoryStructure(target_depth, backup_name, current_path, here, current_depth) ==
    IF here \in fs.denied
    THEN \* os.listdir raises before indent is assigned; the handler of line
         \* 262 formats indent and so raises UnboundLocalError itself
         [out |-> <<>>, exc |-> "UnboundLocalError"]
    ELSE LET dirs == {d \in ListDirs(here) : d \notin SystemDirs}
         IN  IF current_depth = target_depth
             THEN [out |-> LooseLines(backup_name, current_path, here)
                           \o SplitLevelDirs(SortedNames(dirs), backup_name, current_path, here),
                   exc |-> "none"]
             ELSE IF current_depth < target_depth
             THEN LET loose == IF current_depth = target_depth - 1
                               THEN LooseLines(backup_name, current_path, here)
                               ELSE <<>>
                      below == DescendDirs(SortedNames(dirs), target_depth, backup_name,
                                           current_path, here, current_depth)
                  IN  [out |-> loose \o below.out, exc |-> below.exc]
             ELSE [out |-> <<>>, exc |-> "none"]

\* the loop of lines 241-259 over the remaining sorted directories
DescendDirs(rest, target_depth, backup_name, current_path, here, current_depth) ==
    IF rest = <<>> THEN [out |-> <<>>, exc |-> "none"]
    ELSE LET dir_name == Head(rest)
             next_path == JoinRel(current_path, dir_name)
             file_count == WalkFileCount(Append(here, dir_name))
             this ==
                 IF current_depth = target_depth - 1
                 THEN [out |-> <<Line("SubdirectoryArchive",
                                      SubdirKey(backup_name, next_path), file_count,
                                      Append(here, dir_name))>>,
                       exc |-> "none"]
                 ELSE LET sub == ShowDirectoryStructure(target_depth, backup_name, next_path,
                                                        Append(here, dir_name),
                                                        current_depth + 1)
                      IN  IF sub.exc = "OSError"
                          THEN [out |-> <<Line("Structure", "", file_count, Append(here, dir_name))>> \o sub.out
                                        \o <<Line("AccessError", "", 0, Append(here, dir_name))>>,
                                exc |-> "none"]
                          ELSE [out |-> <<Line("Structure", "", file_count, Append(here, dir_name))>> \o sub.out,
                                exc |-> sub.exc]
         IN  IF this.exc # "none" THEN this
             ELSE LET more == DescendDirs(Tail(rest), target_depth, backup_name,
                                          current_path, here, current_depth)
                  IN  [out |-> this.out \o more.out, exc |-> more.exc]

\* show_backup_plan with the split_depth test placed before the isfile test
ShowBackupPlanResult_DepthFirst ==
    LET name == folder_config.name
        path == folder_config.path
        split_depth == folder_config.split_depth
    IN  IF fs.kind = "missing"
        THEN [out |-> <<Line("NotFound", "", 0, <<>>)>>, exc |-> "none"]
        ELSE IF split_depth = 0
        THEN [out |-> <<Line("WholeTreeArchive", name \o "/" \o Basename(path) \o ".tar.gz",
                           0, <<>>)>>,
              exc |-> "none"]
        ELSE IF fs.kind = "file"
        THEN [out |-> <<Line("SingleFile", name \o "/" \o Basename(path), 0, <<>>)>>,
              exc |-> "none"]
        ELSE ShowDirectoryStructure(split_depth, name, "", <<>>, 1)

\* show_backup_plan, lines 184-196
ShowBackupPlanResult ==
    LET name == folder_config.name
        path == folder_config.path
        split_depth == folder_config.split_depth
    IN  IF fs.kind = "missing"
        THEN [out |-> <<Line("NotFound", "", 0, <<>>)>>, exc |-> "none"]
        ELSE IF fs.kind = "file"
        THEN [out |-> <<Line("SingleFile", name \o "/" \o Basename(path), 0, <<>>)>>,
              exc |-> "none"]
        ELSE IF split_depth = 0
        THEN [out |-> <<Line("WholeTreeArchive", name \o "/" \o Basename(path) \o ".tar.gz",
                           0, <<>>)>>,
              exc |-> "none"]
        ELSE ShowDirectoryStructure(split_depth, name, "", <<>>, 1)

(***************************************************************************)
(* The dry run of one folder.                                              *)
(***************************************************************************)
Folders == [name : {"cfg"}, path : RootPaths, split_depth : 0..MaxSplit]

NoTree(kind) == [kind |-> kind, dirs |-> {}, files |-> {}, denied |-> {}]

Trees ==
    UNION {UNION {{[kind |-> "dir", dirs |-> ds, files |-> fl, denied |-> dn]
                     : fl \in FileSets(ds)}
                  : dn \in DeniedSets(ds)}
           : ds \in DirSets(MaxDirs)}

PlanIdle ==
    /\ fs = NoTree("missing")
    /\ folder_config = [name |-> "cfg", path |-> <<"data", "cfg">>, split_depth |-> 0]
    /\ plan = <<>>
    /\ planState = "idle"

ValIdle ==
    /\ deep_validation = TRUE
    /\ tar_file = [state |-> "absent", members |-> <<>>]
    /\ original = <<>>
    /\ pc = "idle"
    /\ temp_dir = [state |-> "none", content |-> <<>>]
    /\ original_files = {}
    /\ extracted_files = {}
    /\ missing_files = {}
    /\ extra_files = {}
    /\ files_to_check = EmptyBag
    /\ exc = "none"
    /\ log = <<>>
    /\ result = "pending"

CallIdle ==
    /\ tmp_dirs = {}
    /\ tmp_name = ""
    /\ calls = 0

HashIdle ==
    /\ dir_states = <<>>
    /\ digests = <<>>

RunIdle ==
    /\ config_folders = <<>>
    /\ dry_run = FALSE
    /\ run_pc = "idle"
    /\ folders_habilitadas = <<>>
    /\ idx = 0
    /\ sucessos = 0
    /\ falhas = 0
    /\ attempts = <<>>
    /\ previewed = <<>>
    /\ sent = <<>>
    /\ run_result = "pending"

InitPlan ==
    /\ fs \in {NoTree("missing"), NoTree("file")} \cup Trees
    /\ folder_config \in Folders
    /\ plan = <<>>
    /\ planState = "idle"
    /\ ValIdle
    /\ CallIdle
    /\ HashIdle
    /\ RunIdle

ShowBackupPlan ==
    /\ planState = "idle"
    /\ LET r == ShowBackupPlanResult
       IN  /\ plan' = r.out
           /\ planState' = IF r.exc = "none" THEN "returned" ELSE "raised"
    /\ UNCHANGED <<fs, folder_config, valVars, callVars, hashVars, runVars>>

NextPlan == ShowBackupPlan

SpecPlan == InitPlan /\ [][NextPlan]_vars

(***************************************************************************)
(* The archive validator: inputs.  A relative path is a number; 0 is a     *)
(* path the original tree never holds.                                     *)
(***************************************************************************)
Data == 0..MaxData

Reg(d) == [kind |-> "regular", data |-> d]

\* a file that open() refuses (PermissionError, or a link to nothing)
Unreadable == [kind |-> "unreadable", data |-> 0]

\* a link to nothing: os.walk lists it, os.path.exists denies it
Dangling == [kind |-> "dangling", data |-> 0]

OrigStates == {Reg(d) : d \in Data} \cup {Unreadable}

MemberStates == {Reg(d) : d \in Data} \cup {Unreadable, Dangling}

\* what an archive of a tree of n files may hold: any of the paths in any
\* state, and possibly the extra path 0
MemberSets(n) ==
    LET own == UNION {[S -> MemberStates] : S \in SUBSET (1..n)}
    IN  own \cup {(0 :> Reg(0)) @@ m : m \in own}

\* the digest of a file's bytes (hashlib.md5(...).hexdigest())
Md5(d) == d % DigestSpace

\* the threshold of line 339 and the sample size of line 341
SampleThreshold == 100

SampleSize == 100

SmallTrees == UNION {[1..n -> OrigStates] : n \in 0..MaxSmall}

\* large trees: every file regular with content 0
LargeTrees == {[p \in 1..n |-> Reg(0)] : n \in SampleThreshold..(SampleThreshold + MaxOver)}

\* archives of a large tree: all its files unchanged, but for path 1, which
\* may be left out, unchanged or altered
LargeMembers(n) ==
    LET rest == [p \in 2..n |-> Reg(0)]
    IN  {rest} \cup {(1 :> Reg(d)) @@ rest : d \in 0..1}

NoTar(state) == [state |-> state, members |-> <<>>]

\* "ReadError": tarfile.open rejects the archive; "OSError": extractall fails
TarFailures == {"ReadError", "OSError"}

(***************************************************************************)
(* validar_backup_completo, step by step.                                  *)
(***************************************************************************)
\* os.walk over a tree: the relative paths of everything that is not a directory
WalkFiles(tree) == DOMAIN tree

\* the difference of line 327 taken the wrong way round
MissingFiles_Swapped(orig, extr) == extr \ orig

\* original_files - extracted_files (line 327)
MissingFiles(orig, extr) == orig \ extr

\* extracted_files - original_files (line 328)
ExtraFiles(orig, extr) == extr \ orig

\* a test that also fails the validation for extra files
StructureFails_Exact(missing, extra) == missing # {} \/ extra # {}

\* the test of line 330: only missing files fail the validation
StructureFails(missing, extra) == missing # {}

RECURSIVE Drop(_, _)
\* the sets left when j elements are taken out of S
Drop(S, j) ==
    IF j = 0 THEN {S}
    ELSE UNION {{T \ {x} : x \in T} : T \in Drop(S, j - 1)}

\* a draw with replacement (random.choices): an element may come twice
RandomSample_WithRepeats(population, k) ==
    {SetToBag(T) : T \in Drop(BagToSet(population), BagCardinality(population) - k)}
    \cup {LET x == CHOOSE e \in T : TRUE
              y == CHOOSE e \in T \ {x} : TRUE
          IN  SetToBag(T \ {x}) (+) SetToBag({y})
          : T \in Drop(BagToSet(population), BagCardinality(population) - k)}

\* random.sample(population, k): k elements of the list, none drawn twice;
\* the population is a list without repetitions
RandomSample(population, k) ==
    {SetToBag(T) : T \in Drop(BagToSet(population), BagCardinality(population) - k)}

\* lines 338-341: the lists files_to_check may become
FilesToCheck(orig_files) ==
    LET all == SetToBag(orig_files)
    IN  IF BagCardinality(all) > SampleThreshold
        THEN RandomSample(all, SampleSize)
        ELSE {all}

\* a handler written as "except OSError"
Catches_OSErrorOnly(e) == e = "OSError"

\* the except clause of line 362 catches every Exception
Catches(e) == TRUE

\* the loop body without the comparison of the digests
CheckFile_NoDigest(rel_path) ==
    LET o == original[rel_path]
        x == temp_dir.content[rel_path]
    IN  IF rel_path \notin DOMAIN temp_dir.content \/ x.kind = "dangling"
        THEN "absent_in_extraction"
        ELSE IF o.kind # "regular" \/ x.kind # "regular"
        THEN "open_failed"
        ELSE "equal"

\* one pass of the loop body, lines 344-357, for rel_path
CheckFile(rel_path) ==
    LET o == original[rel_path]
        x == temp_dir.content[rel_path]
    IN  IF rel_path \notin DOMAIN temp_dir.content \/ x.kind = "dangling"
        THEN "absent_in_extraction"
        ELSE IF o.kind # "regular" \/ x.kind # "regular"
        THEN "open_failed"
        ELSE IF Md5(o.data) # Md5(x.data)
        THEN "hash_mismatch"
        ELSE "equal"

ValidarEnter ==
    /\ pc = "idle"
    /\ IF ~deep_validation
       THEN /\ result' = "True"
            /\ pc' = "done"
            /\ UNCHANGED <<log, temp_dir>>
       ELSE IF tar_file.state = "absent"
       THEN /\ result' = "False"
            /\ log' = Append(log, "archive_not_found")
            /\ pc' = "done"
            /\ UNCHANGED temp_dir
       ELSE /\ temp_dir' = [state |-> "live", content |-> <<>>]
            /\ pc' = "extract"
            /\ UNCHANGED <<result, log>>
    /\ UNCHANGED <<deep_validation, tar_file, original, original_files, extracted_files,
                   missing_files, extra_files, files_to_check, exc>>

\* lines 311-312
Extract ==
    /\ pc = "extract"
    /\ IF tar_file.state \in TarFailures
       THEN /\ exc' = tar_file.state
            /\ pc' = "unwind"
            /\ UNCHANGED temp_dir
       ELSE /\ temp_dir' = [temp_dir EXCEPT !.content = tar_file.members]
            /\ pc' = "walk"
            /\ UNCHANGED exc
    /\ UNCHANGED <<deep_validation, tar_file, original, original_files, extracted_files,
                   missing_files, extra_files, files_to_check, log, result>>

\* lines 315-335
CompareStructure ==
    /\ pc = "walk"
    /\ LET orig == WalkFiles(original)
           extr == WalkFiles(temp_dir.content)
           missing == MissingFiles(orig, extr)
           extra == ExtraFiles(orig, extr)
       IN  /\ original_files' = orig
           /\ extracted_files' = extr
           /\ missing_files' = missing
           /\ extra_files' = extra
           /\ IF StructureFails(missing, extra)
              THEN /\ log' = Append(log, "missing_files")
                   /\ result' = "False"
                   /\ pc' = "unwind"
              ELSE /\ log' = IF extra # {} THEN Append(log, "extra_files") ELSE log
                   /\ pc' = "sample"
                   /\ UNCHANGED result
    /\ UNCHANGED <<deep_validation, tar_file, original, temp_dir, files_to_check, exc>>

\* lines 338-341
SelectFiles ==
    /\ pc = "sample"
    /\ files_to_check' \in FilesToCheck(original_files)
    /\ pc' = "hash"
    /\ UNCHANGED <<deep_validation, tar_file, original, temp_dir, original_files,
                   extracted_files, missing_files, extra_files, exc, log, result>>

\* the loop of lines 343-360; the list is walked in an order the code does
\* not fix, so any failing path may be the one met first
CompareHashes ==
    /\ pc = "hash"
    /\ LET bad == {p \in BagToSet(files_to_check) : CheckFile(p) # "equal"}
       IN  IF bad = {}
           THEN /\ log' = Append(log, "validated")
                /\ result' = "True"
                /\ UNCHANGED exc
           ELSE \E p \in bad :
                   IF CheckFile(p) = "open_failed"
                   THEN /\ exc' = "OSError"
                        /\ UNCHANGED <<log, result>>
                   ELSE /\ log' = Append(log, CheckFile(p))
                        /\ result' = "False"
                        /\ UNCHANGED exc
    /\ pc' = "unwind"
    /\ UNCHANGED <<deep_validation, tar_file, original, temp_dir, original_files,
                   extracted_files, missing_files, extra_files, files_to_check>>

\* a validator that removes the directory only when no exception is under way
LeaveWith_KeepOnError ==
    /\ pc = "unwind"
    /\ temp_dir' = IF exc = "none" THEN [state |-> "removed", content |-> <<>>] ELSE temp_dir
    /\ IF exc = "none"
       THEN /\ pc' = "done"
            /\ UNCHANGED <<log, result>>
       ELSE /\ log' = Append(log, "validation_error")
            /\ result' = "False"
            /\ pc' = "done"
    /\ UNCHANGED <<deep_validation, tar_file, original, original_files, extracted_files,
                   missing_files, extra_files, files_to_check, exc>>

\* leaving the with block removes the directory; an exception then meets
\* the handler of lines 362-364
LeaveWith ==
    /\ pc = "unwind"
    /\ temp_dir' = [state |-> "removed", content |-> <<>>]
    /\ IF exc = "none"
       THEN /\ pc' = "done"
            /\ UNCHANGED <<log, result>>
       ELSE IF Catches(exc)
       THEN /\ log' = Append(log, "validation_error")
            /\ result' = "False"
            /\ pc' = "done"
       ELSE /\ pc' = "raised"
            /\ UNCHANGED <<log, result>>
    /\ UNCHANGED <<deep_validation, tar_file, original, original_files, extracted_files,
                   missing_files, extra_files, files_to_check, exc>>

InitVal ==
    /\ deep_validation \in BOOLEAN
    /\ \/ /\ original \in SmallTrees
          /\ tar_file \in {NoTar("absent")} \cup {NoTar(f) : f \in TarFailures}
                            \cup {[state |-> "ok", members |-> m]
                                    : m \in MemberSets(Cardinality(DOMAIN original))}
       \/ /\ original \in LargeTrees
          /\ tar_file \in {[state |-> "ok", members |-> m]
                             : m \in LargeMembers(Cardinality(DOMAIN original))}
    /\ pc = "idle"
    /\ temp_dir = [state |-> "none", content |-> <<>>]
    /\ original_files = {}
    /\ extracted_files = {}
    /\ missing_files = {}
    /\ extra_files = {}
    /\ files_to_check = EmptyBag
    /\ exc = "none"
    /\ log = <<>>
    /\ result = "pending"
    /\ PlanIdle
    /\ CallIdle
    /\ HashIdle
    /\ RunIdle

NextVal ==
    \/ ValidarEnter /\ UNCHANGED <<planVars, callVars, hashVars, runVars>>
    \/ Extract /\ UNCHANGED <<planVars, callVars, hashVars, runVars>>
    \/ CompareStructure /\ UNCHANGED <<planVars, callVars, hashVars, runVars>>
    \/ SelectFiles /\ UNCHANGED <<planVars, callVars, hashVars, runVars>>
    \/ CompareHashes /\ UNCHANGED <<planVars, callVars, hashVars, runVars>>
    \/ LeaveWith /\ UNCHANGED <<planVars, callVars, hashVars, runVars>>

SpecVal == InitVal /\ [][NextVal]_vars

(***************************************************************************)
(* Validations run one after the other by one process, with the           *)
(* directories tempfile creates for them.                                  *)
(***************************************************************************)
\* the names mkdtemp may give a directory
TmpNames == {"tmp1", "tmp2"}

\* the trees and archives of these runs: at most one file
CallTrees == UNION {[1..n -> OrigStates] : n \in 0..1}

CallTars(tree) ==
    {NoTar("absent")} \cup {NoTar(f) : f \in TarFailures}
        \cup {[state |-> "ok", members |-> m] : m \in MemberSets(Cardinality(DOMAIN tree))}

\* tempfile.TemporaryDirectory(): mkdtemp creates a directory under a name
\* that does not exist yet
MkdTemp ==
    IF temp_dir'.state = "live" /\ temp_dir.state # "live"
    THEN \E n \in TmpNames \ tmp_dirs :
            /\ tmp_name' = n
            /\ tmp_dirs' = tmp_dirs \cup {n}
    ELSE UNCHANGED <<tmp_name, tmp_dirs>>

\* TemporaryDirectory.__exit__: the directory of the call is removed
RmTree ==
    /\ tmp_dirs' = IF temp_dir'.state = "removed" THEN tmp_dirs \ {tmp_name} ELSE tmp_dirs
    /\ UNCHANGED tmp_name

\* the next call of validar_backup_completo, with its own arguments
ValidarAgain ==
    /\ pc \in {"done", "raised"}
    /\ calls < MaxCalls
    /\ calls' = calls + 1
    /\ deep_validation' \in BOOLEAN
    /\ original' \in CallTrees
    /\ tar_file' \in CallTars(original')
    /\ pc' = "idle"
    /\ temp_dir' = [state |-> "none", content |-> <<>>]
    /\ original_files' = {}
    /\ extracted_files' = {}
    /\ missing_files' = {}
    /\ extra_files' = {}
    /\ files_to_check' = EmptyBag
    /\ exc' = "none"
    /\ log' = <<>>
    /\ result' = "pending"
    /\ tmp_name' = ""
    /\ UNCHANGED tmp_dirs

InitCalls ==
    /\ deep_validation \in BOOLEAN
    /\ original \in CallTrees
    /\ tar_file \in CallTars(original)
    /\ pc = "idle"
    /\ temp_dir = [state |-> "none", content |-> <<>>]
    /\ original_files = {}
    /\ extracted_files = {}
    /\ missing_files = {}
    /\ extra_files = {}
    /\ files_to_check = EmptyBag
    /\ exc = "none"
    /\ log = <<>>
    /\ result = "pending"
    /\ tmp_dirs = {}
    /\ tmp_name = ""
    /\ calls = 1
    /\ PlanIdle
    /\ HashIdle
    /\ RunIdle

NextCalls ==
    \/ ValidarEnter /\ MkdTemp /\ UNCHANGED <<planVars, calls, hashVars, runVars>>
    \/ Extract /\ UNCHANGED <<planVars, callVars, hashVars, runVars>>
    \/ CompareStructure /\ UNCHANGED <<planVars, callVars, hashVars, runVars>>
    \/ SelectFiles /\ UNCHANGED <<planVars, callVars, hashVars, runVars>>
    \/ CompareHashes /\ UNCHANGED <<planVars, callVars, hashVars, runVars>>
    \/ LeaveWith /\ RmTree /\ UNCHANGED <<planVars, calls, hashVars, runVars>>
    \/ ValidarAgain /\ UNCHANGED <<planVars, hashVars, runVars>>

SpecCalls == InitCalls /\ [][NextCalls]_vars

(***************************************************************************)
(* calculate_directory_hash.  A name and a content are sequences of bytes; *)
(* a directory state holds its regular files, its sub-directories (each    *)
(* with a mark that stands for what lies inside it), the order in which    *)
(* os.listdir returns the entries, and whether it can be listed at all.    *)
(***************************************************************************)
Bytes == {"a", "b"}

\* ord() of a byte
ByteOrd(c) == IF c = "a" THEN 97 ELSE 98

\* the names a regular file of the directory may have
HashNames == {<<"a">>, <<"a", "b">>}

\* the names a sub-directory may have
SubNames == {<<"b">>}

Contents == UNION {[1..n -> Bytes] : n \in 0..MaxContent}

\* a file open() and read() serve, and one that open() refuses
HashFileStates == {[readable |-> TRUE, bytes |-> c] : c \in Contents}
                    \cup {[readable |-> FALSE, bytes |-> <<>>]}

FileMaps == UNION {[S -> HashFileStates] : S \in SUBSET HashNames}

SubMaps == UNION {[S -> 0..1] : S \in SUBSET SubNames}

RECURSIVE Perms(_)
\* the orders in which the entries S may be listed
Perms(S) ==
    IF S = {} THEN {<<>>}
    ELSE UNION {{<<e>> \o q : q \in Perms(S \ {e})} : e \in S}

RECURSIVE StrLess(_, _)
\* s < t for Python str: by code point, a proper prefix first
StrLess(s, t) ==
    IF t = <<>> THEN FALSE
    ELSE IF s = <<>> THEN TRUE
    ELSE IF ByteOrd(Head(s)) # ByteOrd(Head(t)) THEN ByteOrd(Head(s)) < ByteOrd(Head(t))
    ELSE StrLess(Tail(s), Tail(t))

\* a list left in the order os.listdir gave
SortList_Unsorted(l) == l

RECURSIVE SortList(_)
\* files.sort(), on a list without repetitions
SortList(l) ==
    IF l = <<>> THEN <<>>
    ELSE LET m == CHOOSE i \in 1..Len(l) : \A j \in 1..Len(l) : ~StrLess(l[j], l[i])
         IN  <<l[m]>> \o SortList(SubSeq(l, 1, m - 1) \o SubSeq(l, m + 1, Len(l)))

DirState(files, subs, listing, listable) ==
    [files |-> files, subs |-> subs, listing |-> listing, listable |-> listable]

\* lines 270-274: the entries of os.listdir(path) that are regular files
ListedFiles(d) == SelectSeq(d.listing, LAMBDA e : e \in DOMAIN d.files)

RECURSIVE HashStream(_, _)
\* lines 279-291: the bytes fed to hash_md5 for the files of the list; the
\* name is fed before the file is opened
HashStream(files, d) ==
    IF files = <<>> THEN <<>>
    ELSE LET filename == Head(files)
             f == d.files[filename]
         IN  filename \o (IF f.readable THEN f.bytes ELSE <<>>) \o HashStream(Tail(files), d)

\* hexdigest(): the digest, taken to be injective on the bytes it was fed,
\* is written as those bytes
HexDigest(stream) == stream

\* calculate_directory_hash(path), lines 264-296
CalculateDirectoryHashOf(d) ==
    IF ~d.listable THEN HexDigest(<<>>)
    ELSE HexDigest(HashStream(SortList(ListedFiles(d)), d))

\* the second state has the files of the first; its entries come in any
\* order and it may hold sub-directories
SameFilesPairs ==
    UNION {UNION {UNION {{<<DirState(fm, <<>>, SortList(l), ok), DirState(fm, sm, l2, ok)>>
                            : l2 \in Perms(DOMAIN fm \cup DOMAIN sm)}
                         : l \in {CHOOSE q \in Perms(DOMAIN fm) : TRUE}}
                  : sm \in SubMaps}
           : fm \in FileMaps, ok \in BOOLEAN}

\* two states with any files, each listed in sorted order
AnyFilesPairs ==
    {<<DirState(f1, <<>>, SortList(CHOOSE q \in Perms(DOMAIN f1) : TRUE), TRUE),
       DirState(f2, <<>>, SortList(CHOOSE q \in Perms(DOMAIN f2) : TRUE), TRUE)>>
       : f1 \in FileMaps, f2 \in FileMaps}

InitHash ==
    /\ dir_states \in SameFilesPairs \cup AnyFilesPairs
    /\ digests = <<>>
    /\ PlanIdle
    /\ ValIdle
    /\ CallIdle
    /\ RunIdle

CalculateDirectoryHash ==
    /\ Len(digests) < Len(dir_states)
    /\ digests' = Append(digests, CalculateDirectoryHashOf(dir_states[Len(digests) + 1]))
    /\ UNCHANGED <<dir_states, planVars, valVars, callVars, runVars>>

NextHash == CalculateDirectoryHash

SpecHash == InitHash /\ [][NextHash]_vars

(***************************************************************************)
(* executar_todos_backups and executar_backup.  A folder entry has a name  *)
(* and an enabled flag; what executar_backup meets for one folder (the     *)
(* path, the file list, the external tool, the archive, the validation)   *)
(* is drawn when the folder is taken.                                      *)
(***************************************************************************)
FolderNames == 1..MaxFolders

\* the lists config['folders'] may hold: names are unique keys
Configs ==
    {c \in UNION {[1..n -> [name : FolderNames, enabled : BOOLEAN]] : n \in 0..MaxFolders} :
        \A i, j \in DOMAIN c : i # j => c[i].name # c[j].name}

\* lines 566, 589: [f for f in self.config['folders'] if f.get('enabled', True)]
Enabled(folders) == SelectSeq(folders, LAMBDA f : f.enabled)

NamesOf(folders) == [i \in DOMAIN folders |-> folders[i].name]

\* what one call of executar_backup meets
BackupEnvs ==
    [path_exists : BOOLEAN,       \* line 434
     list_ok : BOOLEAN,           \* line 443: what gerar_lista_arquivos returns
     proc : {"zero", "nonzero", "oserror"},   \* lines 475, 498: Popen raises, or the exit code
     local_tar : BOOLEAN,         \* line 518: the archive is there and deep_validation is on
     valid : BOOLEAN,             \* line 519: what validar_backup_completo returns
     marker : BOOLEAN]            \* line 527: the output names a passed validation

Message(kind, name) == [kind |-> kind, name |-> name]

\* an except clause of lines 534-540 takes process errors only
BackupCatches_ProcessErrorsOnly(e) == e \in {"TimeoutExpired", "CalledProcessError"}

\* lines 534-554: the except clauses of executar_backup; the last one is
\* `except Exception`
BackupCatches(e) == e \in {"TimeoutExpired", "CalledProcessError", "FileNotFoundError", "OSError"}

\* the body of the try block, lines 426-532: the exception it raises, or
\* the value it returns and the message it sends
BackupBody(name, env) ==
    IF ~env.path_exists THEN [raises |-> "FileNotFoundError", ret |-> FALSE, msgs |-> <<>>]
    ELSE IF ~env.list_ok
        THEN [raises |-> "none", ret |-> FALSE, msgs |-> <<Message("list_failed", name)>>]
    ELSE IF env.proc = "oserror" THEN [raises |-> "OSError", ret |-> FALSE, msgs |-> <<>>]
    ELSE IF env.proc = "nonzero"
        THEN [raises |-> "CalledProcessError", ret |-> FALSE, msgs |-> <<>>]
    ELSE IF env.local_tar
        THEN IF env.valid
             THEN [raises |-> "none", ret |-> TRUE, msgs |-> <<Message("validated", name)>>]
             ELSE [raises |-> "none", ret |-> FALSE,
                   msgs |-> <<Message("validation_failed", name)>>]
    ELSE IF env.marker
        THEN [raises |-> "none", ret |-> TRUE, msgs |-> <<Message("remote_ok", name)>>]
    ELSE [raises |-> "none", ret |-> TRUE, msgs |-> <<Message("inconclusive", name)>>]

\* executar_backup(folder_config), lines 420-554, dry_run false: an
\* exception that an except clause takes becomes a message and False
ExecutarBackup(name, env) ==
    LET body == BackupBody(name, env)
    IN  IF body.raises = "none" THEN body
        ELSE IF BackupCatches(body.raises)
            THEN [raises |-> "none", ret |-> FALSE,
                  msgs |-> <<Message(IF body.raises = "CalledProcessError"
                                     THEN "process_error" ELSE "unexpected", name)>>]
        ELSE body

InitRun ==
    /\ config_folders \in Configs
    /\ dry_run \in BOOLEAN
    /\ run_pc = "idle"
    /\ folders_habilitadas = <<>>
    /\ idx = 0
    /\ sucessos = 0
    /\ falhas = 0
    /\ attempts = <<>>
    /\ previewed = <<>>
    /\ sent = <<>>
    /\ run_result = "pending"
    /\ PlanIdle
    /\ ValIdle
    /\ CallIdle
    /\ HashIdle

\* lines 560-584: the dry run shows the plan of each enabled folder; a
\* show_backup_plan that raises ends the run with that exception
RunDry ==
    /\ run_pc = "idle"
    /\ dry_run
    /\ folders_habilitadas' = Enabled(config_folders)
    /\ IF folders_habilitadas' = <<>>
       THEN /\ run_pc' = "done"
            /\ run_result' = "false"
            /\ previewed' = <<>>
       ELSE \E k \in 1..Len(folders_habilitadas') :
               /\ previewed' = SubSeq(NamesOf(folders_habilitadas'), 1, k)
               /\ \/ /\ k = Len(folders_habilitadas')
                     /\ run_pc' = "done"
                     /\ run_result' = "true"
                  \/ /\ run_pc' = "raised"
                     /\ run_result' = "pending"
    /\ UNCHANGED <<config_folders, dry_run, idx, sucessos, falhas, attempts, sent>>

\* lines 586-591
RunStart ==
    /\ run_pc = "idle"
    /\ ~dry_run
    /\ sent' = Append(sent, Message("start", 0))
    /\ folders_habilitadas' = Enabled(config_folders)
    /\ sucessos' = 0
    /\ falhas' = 0
    /\ run_pc' = "loop"
    /\ UNCHANGED <<config_folders, dry_run, idx, attempts, previewed, run_result>>

\* lines 593-607: one turn of the loop
RunFolder ==
    /\ run_pc = "loop"
    /\ idx < Len(folders_habilitadas)
    /\ \E env \in BackupEnvs :
          LET name == folders_habilitadas[idx + 1].name
              r == ExecutarBackup(name, env)
              before == Append(sent, Message("folder_start", name)) \o r.msgs
          IN  /\ attempts' = Append(attempts, name)
              /\ idx' = idx + 1
              /\ IF r.raises # "none"
                 THEN /\ run_pc' = "raised"
                      /\ sent' = before
                      /\ UNCHANGED <<sucessos, falhas>>
                 ELSE /\ run_pc' = "loop"
                      /\ IF r.ret
                         THEN /\ sucessos' = sucessos + 1
                              /\ falhas' = falhas
                              /\ sent' = Append(before, Message("folder_ok", name))
                         ELSE /\ falhas' = falhas + 1
                              /\ sucessos' = sucessos
                              /\ sent' = Append(before, Message("folder_failed", name))
    /\ UNCHANGED <<config_folders, dry_run, folders_habilitadas, previewed, run_result>>

\* lines 609-624: the final report and the value returned
RunFinish ==
    /\ run_pc = "loop"
    /\ idx = Len(folders_habilitadas)
    /\ LET total == sucessos + falhas
       IN  /\ sent' = Append(sent, [kind |-> "report", name |-> 0, sucessos |-> sucessos,
                                     total |-> total, falhas |-> falhas])
           /\ run_result' = IF sucessos = total THEN "true" ELSE "false"
    /\ run_pc' = "done"
    /\ UNCHANGED <<config_folders, dry_run, folders_habilitadas, idx, sucessos, falhas,
                   attempts, previewed>>

NextRun ==
    \/ RunDry /\ UNCHANGED <<planVars, valVars, callVars, hashVars>>
    \/ RunStart /\ UNCHANGED <<planVars, valVars, callVars, hashVars>>
    \/ RunFolder /\ UNCHANGED <<planVars, valVars, callVars, hashVars>>
    \/ RunFinish /\ UNCHANGED <<planVars, valVars, callVars, hashVars>>

SpecRun == InitRun /\ [][NextRun]_vars

(***************************************************************************)
(* What a finished preview says.                                           *)
(***************************************************************************)
Entries == SelectSeq(plan, LAMBDA l : l.kind \in EntryKinds)

SplitRun == planState = "returned" /\ fs.kind = "dir" /\ folder_config.split_depth >= 1

\* the directories _show_directory_structure was called on
Reached == {<<>>} \cup {plan[i].src : i \in {j \in 1..Len(plan) : plan[j].kind = "Structure"}}

\* the sub-directories the preview archives as one unit
Archived == {Entries[i].src : i \in {j \in 1..Len(Entries) :
                                         Entries[j].kind = "SubdirectoryArchive"}}

\* C1: the remote keys of the entries of one preview are pairwise distinct,
\* also when a sub-directory named "_files" lies next to loose files.
C1_KeysDistinct ==
    SplitRun => \A i, j \in 1..Len(Entries) : i # j => Entries[i].key # Entries[j].key

\* C2: counting the root as depth 1, a sub-directory is archived as a unit
\* only when the directory that holds it is at depth exactly split_depth;
\* no directory above that depth is archived as a unit, and no line is
\* printed for anything below an archived sub-directory.
C2_ArchivedAtSplitDepth ==
    SplitRun =>
        /\ \A d \in Archived : Len(Parent(d)) + 1 = folder_config.split_depth
        /\ \A i \in 1..Len(plan) : \A d \in Archived :
               ~(IsPrefix(d, plan[i].src) /\ plan[i].src # d)

\* C3: with every directory readable, a directory the planner reaches above
\* the split depth that has no sub-directory to descend into has its loose
\* files announced as one loose-files entry, and the planner does not raise.
C3_ShallowTreeLooseFiles ==
    (planState # "idle" /\ fs.kind = "dir" /\ folder_config.split_depth >= 1
        /\ fs.denied = {}) =>
        /\ planState = "returned"
        /\ \A d \in Reached :
              (/\ Len(d) + 1 < folder_config.split_depth
               /\ {n \in ListDirs(d) : n \notin SystemDirs} = {}
               /\ ListFiles(d) # {})
              => \E i \in 1..Len(Entries) :
                    /\ Entries[i].kind = "LooseFilesArchive"
                    /\ Entries[i].src = d

\* C4: a root that is a regular file (any split_depth) yields exactly the
\* line of the single file, key name/basename; a directory root with
\* split_depth 0 yields exactly the line of the whole tree, key
\* name/basename.tar.gz; neither reads a directory, so neither can raise.
C4_UnsplitRootOneEntry ==
    /\ (planState # "idle" /\ fs.kind = "file") =>
          /\ planState = "returned"
          /\ Len(plan) = 1
          /\ plan[1].kind = "SingleFile"
          /\ plan[1].key = folder_config.name \o "/"
                              \o folder_config.path[Len(folder_config.path)]
    /\ (planState # "idle" /\ fs.kind = "dir" /\ folder_config.split_depth = 0) =>
          /\ planState = "returned"
          /\ Len(plan) = 1
          /\ plan[1].kind = "WholeTreeArchive"
          /\ plan[1].key = folder_config.name \o "/"
                              \o folder_config.path[Len(folder_config.path)] \o ".tar.gz"

C4_Witness ==
    /\ planState = "returned"
    /\ fs.kind = "file"
    /\ folder_config.split_depth = 0
    /\ folder_config.path = <<"data", "cfg">>
    /\ plan = <<Line("SingleFile", "cfg/cfg", 0, <<>>)>>

\* C5: a directory that cannot be listed never makes the preview raise: the
\* call returns and the failure shows as an error line of that subtree.
C5_ListingErrorIsInline ==
    (planState # "idle" /\ fs.kind = "dir" /\ folder_config.split_depth >= 1) =>
        /\ planState = "returned"
        /\ (<<>> \in fs.denied) =>
              \E i \in 1..Len(plan) : plan[i].kind \in {"ErrorMarker", "AccessError"}

(***************************************************************************)
(* What a finished validation says.                                        *)
(***************************************************************************)
Logged(event) == \E i \in 1..Len(log) : log[i] = event

DeepRun == pc = "done" /\ deep_validation

\* C6: with deep validation on and an archive that extracts, a path of the
\* original tree that the extraction lacks makes the validation return
\* False, and the missing set it reports is exactly the original paths
\* minus the extracted paths.
C6_MissingFileFails ==
    (DeepRun /\ tar_file.state = "ok"
        /\ (DOMAIN original) \ (DOMAIN tar_file.members) # {}) =>
        /\ result = "False"
        /\ Logged("missing_files")
        /\ missing_files = (DOMAIN original) \ (DOMAIN tar_file.members)

C6_Witness ==
    /\ DeepRun
    /\ tar_file.state = "ok"
    /\ DOMAIN original = {1, 2}
    /\ DOMAIN tar_file.members = {0, 1}
    /\ missing_files = {2}
    /\ result = "False"

\* C7: with deep validation on, True is returned only when no file is
\* missing and every path selected for comparison has the same digest in
\* the original tree and in the extraction.
C7_VerifiedMeansDigestsAgree ==
    (DeepRun /\ result = "True") =>
        /\ (DOMAIN original) \ (DOMAIN tar_file.members) = {}
        /\ ~Logged("hash_mismatch")
        /\ \A p \in BagToSet(files_to_check) :
              /\ original[p].kind = "regular"
              /\ tar_file.members[p].kind = "regular"
              /\ Md5(original[p].data) = Md5(tar_file.members[p].data)

C7_Witness ==
    /\ DeepRun
    /\ result = "True"
    /\ BagToSet(files_to_check) = {1, 2}
    /\ Logged("validated")
    /\ original[1].data # original[2].data

\* C8: when the extraction holds every original path and at least one more,
\* and every file compared is readable on both sides with the same content,
\* the validation returns True; the extra paths are only logged.
C8_ExtrasDoNotFail ==
    (DeepRun /\ tar_file.state = "ok"
        /\ (DOMAIN original) \subseteq (DOMAIN tar_file.members)
        /\ (DOMAIN original) # (DOMAIN tar_file.members)
        /\ \A p \in BagToSet(files_to_check) :
              /\ original[p].kind = "regular"
              /\ tar_file.members[p] = original[p]) =>
        /\ result = "True"
        /\ Logged("extra_files")
        /\ extra_files = (DOMAIN tar_file.members) \ (DOMAIN original)

C8_Witness ==
    /\ DeepRun
    /\ result = "True"
    /\ original_files = {1, 2}
    /\ extracted_files = {0, 1, 2}
    /\ extra_files = {0}
    /\ files_to_check = SetToBag({1, 2})

\* C9: a validation that returns True over N original files compared 100
\* pairwise distinct original paths when N > 100, and every one of the N
\* paths exactly once when N <= 100.
C9_SampleOfHundred ==
    (DeepRun /\ result = "True") =>
        LET N == Cardinality(DOMAIN original)
        IN  /\ \A p \in BagToSet(files_to_check) :
                  CopiesIn(p, files_to_check) = 1 /\ p \in DOMAIN original
            /\ Logged("validated")
            /\ N > 100 => BagCardinality(files_to_check) = 100
            /\ N <= 100 => BagToSet(files_to_check) = DOMAIN original

C9_Witness ==
    /\ DeepRun
    /\ result = "True"
    /\ Cardinality(DOMAIN original) = 101
    /\ BagCardinality(files_to_check) = 100
    /\ 1 \notin BagToSet(files_to_check)
    /\ 1 \in DOMAIN tar_file.members
    /\ tar_file.members[1] = Reg(1)

C11_TempDirRemoved ==
    /\ pc \in {"done", "raised"} =>
          /\ temp_dir.state # "live"
          /\ tmp_dirs = {}
          /\ (Logged("validated") \/ Logged("missing_files") \/ Logged("hash_mismatch")
                \/ Logged("absent_in_extraction") \/ Logged("validation_error"))
                => temp_dir.state = "removed"
    /\ pc \in {"extract", "walk", "sample", "hash", "unwind"} =>
          /\ temp_dir.state = "live"
          /\ tmp_dirs = {tmp_name}
    /\ pc = "extract" => temp_dir.content = <<>>

C11_Witness ==
    /\ calls = 2
    /\ pc = "done"
    /\ exc = "OSError"
    /\ Logged("validation_error")
    /\ tmp_name # ""
    /\ temp_dir.state = "removed"
    /\ tmp_dirs = {}

(***************************************************************************)
(* What two digests of a directory say.                                    *)
(***************************************************************************)
BothHashed == Len(digests) = 2

AllReadable(d) == d.listable /\ \A n \in DOMAIN d.files : d.files[n].readable

\* C12: two states of a directory whose files can all be read and that
\* differ in the content, the name or the presence of a file directly
\* inside it get different digests.
C12_ChangeChangesDigest ==
    (BothHashed /\ AllReadable(dir_states[1]) /\ AllReadable(dir_states[2])
        /\ dir_states[1].files # dir_states[2].files) =>
        digests[1] # digests[2]

\* C13: the digest is the same for two states of a directory that hold the
\* same regular files, whatever the order in which the entries are listed
\* and whatever sub-directories, with whatever inside, lie next to them.
C13_OrderAndSubdirsIgnored ==
    (BothHashed /\ dir_states[1].files = dir_states[2].files
        /\ dir_states[1].listable = dir_states[2].listable) =>
        digests[1] = digests[2]

C13_Witness ==
    /\ BothHashed
    /\ dir_states[1].files = dir_states[2].files
    /\ dir_states[1].listing = << <<"a">>, <<"a", "b">> >>
    /\ dir_states[2].listing = << <<"b">>, <<"a", "b">>, <<"a">> >>
    /\ dir_states[2].subs = (<<"b">> :> 1)
    /\ dir_states[1].subs = <<>>
    /\ dir_states[1].listable
    /\ digests[1] = digests[2]
    /\ Len(digests[1]) = 5

\* C14: a file that cannot be opened adds nothing to the digest: the
\* directory gets the digest it would get without that file.
C14_UnreadableFileLeftOut ==
    BothHashed =>
        \A n \in DOMAIN dir_states[1].files :
            (/\ ~dir_states[1].files[n].readable
             /\ dir_states[1].listable /\ dir_states[2].listable
             /\ dir_states[2].files = [o \in (DOMAIN dir_states[1].files) \ {n} |-> dir_states[1].files[o]])
            => digests[1] = digests[2]

(***************************************************************************)
(* What a run over all folders leaves.                                     *)
(***************************************************************************)
\* the per-folder reports of lines 603 and 606, in the order sent
FolderReports == SelectSeq(sent, LAMBDA msg : msg.kind \in {"folder_ok", "folder_failed"})

CountKind(kind) == Len(SelectSeq(sent, LAMBDA msg : msg.kind = kind))

\* C15: a run that is not a dry run never ends with an exception of
\* executar_backup; the folders attempted so far are the first enabled
\* folders in configuration order, each once, each with one report of its
\* own; when the run has returned every enabled folder was attempted,
\* sucessos + falhas is the number of enabled folders and the value
\* returned is true exactly when falhas is 0.
C15_EveryEnabledFolderAttempted ==
    ~dry_run =>
        LET names == NamesOf(Enabled(config_folders))
        IN  /\ run_pc # "raised"
            /\ run_pc \in {"loop", "done"} =>
                  /\ attempts = SubSeq(names, 1, idx)
                  /\ NamesOf(FolderReports) = attempts
                  /\ sucessos = CountKind("folder_ok")
                  /\ falhas = CountKind("folder_failed")
                  /\ sucessos + falhas = idx
            /\ run_pc = "done" =>
                  /\ attempts = names
                  /\ sucessos + falhas = Len(names)
                  /\ run_result \in {"true", "false"}
                  /\ run_result = "true" <=> falhas = 0

C15_Witness ==
    /\ ~dry_run
    /\ run_pc = "done"
    /\ Len(config_folders) = 2
    /\ attempts = <<2, 1>>
    /\ \E i \in DOMAIN sent : sent[i] = Message("unexpected", 2)
    /\ \E i \in DOMAIN sent : sent[i] = Message("validated", 1)
    /\ falhas = 1
    /\ sucessos = 1
    /\ run_result = "false"

(***************************************************************************)
(* What a finished preview covers.                                         *)
(***************************************************************************)
\* the file lies in a reserved directory, or below one
UnderSystemDir(f) == \E k \in 1..(Len(f) - 1) : f[k] \in SystemDirs

\* the entries of the preview that take the file: the loose files of the
\* directory that holds it, or a sub-directory archived as a unit above it
Covering(f) ==
    {i \in 1..Len(Entries) :
        \/ Entries[i].kind = "LooseFilesArchive" /\ Entries[i].src = Parent(f)
        \/ Entries[i].kind = "SubdirectoryArchive" /\ IsPrefix(Entries[i].src, Parent(f))}

\* C16: with every directory readable and split_depth at least 1, the
\* planner returns and each regular file of the tree that is not under a
\* reserved directory is taken by exactly one entry of the preview.
C16_EveryFileCoveredOnce ==
    (planState # "idle" /\ fs.kind = "dir" /\ folder_config.split_depth >= 1
        /\ fs.denied = {}) =>
        /\ planState = "returned"
        /\ \A f \in fs.files : ~UnderSystemDir(f) => Cardinality(Covering(f)) = 1

====
